---- MODULE Spec2Model ----
(***************************************************************************)
(* Model of structured-output/structured_chat_app.py: the POST /chat/      *)
(* streaming generator, the GET /chat/ handler, the SQLite message store   *)
(* behind its single-worker executor, and detect_intent.                   *)
(*                                                                         *)
(* Timestamps are left out of the turns: no code path reads them back.     *)
(***************************************************************************)
EXTENDS Integers, Sequences, FiniteSets, TLC

VARIABLES
    table,      \* rows of the messages table (the connection's view)
    queue,      \* jobs submitted to the ThreadPoolExecutor(max_workers=1), FIFO
    log,        \* history: the message lists handed to add_messages, in insert order
    started,    \* number of requests accepted so far
    pc,         \* per task: where its handler is suspended
    kind,       \* per task: "post" or "get"
    rid,        \* per task: number of the request it serves
    prompt,     \* per task: the form field `prompt`
    emitted,    \* per task: the lines yielded to the StreamingResponse so far
    err,        \* per task: the exception the last executor job raised, or "none"
    cursor,     \* per task: rows visible when its SELECT ran
    rows,       \* per task: what fetchall returned
    messages,   \* per task: what get_messages returned
    result,     \* per task: the agent run's new messages
    outcome,    \* per task: how the request went
    midJobs,    \* per task: another request's job ran between its SELECT and its fetchall
    selLen,     \* per task: Len(log) when its SELECT ran
    sawAppend,  \* per task: its INSERT job had run when the client disconnected
    sawTurns,   \* per task: lines yielded when the client disconnected
    addCalls,   \* per task: calls of add_messages made for its request
    completed,  \* history: the requests whose exchange ran to its end without an error
    ip,         \* detect_intent harness: the prompt under test
    iresult     \* detect_intent harness: the value detect_intent returned

vars ==
    << table, queue, log, started, pc, kind, rid, prompt, emitted, err, cursor,
       rows, messages, result, outcome, midJobs, selLen, sawAppend, sawTurns,
       addCalls, completed, ip, iresult >>

\* ------------------------------------------------------------------ bounds

\* Requests accepted over a run.
MaxRequests == 2

\* Pieces concatenated into a prompt for detect_intent.
MaxPieces == 2

\* The cooperative tasks serving requests: two requests can be in flight at once.
Tasks == 1..2

\* ------------------------------------------------------------ detect_intent

TaskWords ==
    { <<"t","a","s","k">>,
      <<"t","o","d","o">>,
      <<"p","l","a","n">>,
      <<"s","c","h","e","d","u","l","e">>,
      <<"o","r","g","a","n","i","z","e">> }

RecipeWords ==
    { <<"r","e","c","i","p","e">>,
      <<"c","o","o","k">>,
      <<"i","n","g","r","e","d","i","e","n","t">>,
      <<"d","i","s","h">>,
      <<"m","e","a","l">> }

WeatherWords ==
    { <<"w","e","a","t","h","e","r">>,
      <<"f","o","r","e","c","a","s","t">>,
      <<"t","e","m","p","e","r","a","t","u","r","e">>,
      <<"r","a","i","n">>,
      <<"s","u","n","n","y">> }

ReviewWords ==
    { <<"r","e","v","i","e","w">>,
      <<"p","r","o","d","u","c","t">>,
      <<"r","a","t","i","n","g">>,
      <<"r","e","c","o","m","m","e","n","d">>,
      <<"o","p","i","n","i","o","n">> }

\* The capital letters of the prompts, with their lowercase
LowerOf ==
    [ A |-> "a", C |-> "c", D |-> "d", E |-> "e", F |-> "f", G |-> "g", H |-> "h",
      I |-> "i", K |-> "k", L |-> "l", M |-> "m", N |-> "n", O |-> "o", P |-> "p",
      R |-> "r", S |-> "s", T |-> "t", U |-> "u", V |-> "v", W |-> "w", X |-> "x",
      Y |-> "y", Z |-> "z" ]

\* str.lower() on one character
LowerChar(c) == IF c \in DOMAIN LowerOf THEN LowerOf[c] ELSE c

\* str.lower()
Lower(s) == [ i \in 1..Len(s) |-> LowerChar(s[i]) ]

\* `word in text` on strings: substring search
Contains(text, word) ==
    \E i \in 1..(Len(text) - Len(word) + 1) :
        SubSeq(text, i, i + Len(word) - 1) = word

\* any(word in text for word in words)
AnyWord(text, words) == \E w \in words : Contains(text, w)

\* detect_intent gone wrong: the prompt is matched as typed.
detect_intent_nolower(p) ==
    IF AnyWord(p, TaskWords) THEN "tasks"
    ELSE IF AnyWord(p, RecipeWords) THEN "recipe"
    ELSE IF AnyWord(p, WeatherWords) THEN "weather"
    ELSE IF AnyWord(p, ReviewWords) THEN "review"
    ELSE "general"

detect_intent(p) ==
    LET prompt_lower == Lower(p) IN
    IF AnyWord(prompt_lower, TaskWords) THEN "tasks"
    ELSE IF AnyWord(prompt_lower, RecipeWords) THEN "recipe"
    ELSE IF AnyWord(prompt_lower, WeatherWords) THEN "weather"
    ELSE IF AnyWord(prompt_lower, ReviewWords) THEN "review"
    ELSE "general"

\* ------------------------------------------------------- messages and JSON

\* A ModelMessage, reduced to what the application reads: its class and its first part.
Msg(k, pk, c) == [ kind |-> k, part_kind |-> pk, content |-> c ]

RequestParts == { "user-prompt", "tool-return", "retry-prompt", "system-prompt" }

ResponseParts == { "text", "tool-call" }

\* result.new_messages_json(): the message list as a token stream
RECURSIVE EncodeMsgs(_)
EncodeMsgs(ms) ==
    IF ms = << >> THEN << >>
    ELSE << ms[1].kind, ms[1].part_kind, ms[1].content >> \o EncodeMsgs(Tail(ms))

new_messages_json(ms) == << "[" >> \o EncodeMsgs(ms) \o << "]" >>

\* Whether ModelMessagesTypeAdapter.validate_json accepts the bytes
ValidJson(b) ==
    /\ Len(b) >= 2
    /\ b[1] = "["
    /\ b[Len(b)] = "]"
    /\ (Len(b) - 2) % 3 = 0
    /\ \A n \in 0..((Len(b) - 2) \div 3 - 1) :
          \/ b[3 * n + 2] = "request" /\ b[3 * n + 3] \in RequestParts
          \/ b[3 * n + 2] = "response" /\ b[3 * n + 3] \in ResponseParts

\* ModelMessagesTypeAdapter.validate_json on bytes it accepts
validate_json(b) ==
    [ n \in 1..((Len(b) - 2) \div 3) |->
        Msg(b[3 * n - 1], b[3 * n], b[3 * n + 1]) ]

\* ---------------------------------------------------------------- the store

Max(S) == CHOOSE x \in S : \A y \in S : y <= x

\* INTEGER PRIMARY KEY: the rowid SQLite assigns to an INSERT without an id
NextId(tbl) == IF tbl = {} THEN 1 ELSE Max({ r.id : r \in tbl }) + 1

\* Insert gone wrong: the record holds only the first message of the exchange.
InsertPartial(tbl, message_list, by) ==
    tbl \cup { [ id |-> NextId(tbl),
                 message_list |->
                     new_messages_json(SubSeq(validate_json(message_list), 1, 1)),
                 by |-> by ] }

\* INSERT INTO messages (message_list) VALUES (?); `by` records the inserting request
Insert(tbl, message_list, by) ==
    tbl \cup { [ id |-> NextId(tbl), message_list |-> message_list, by |-> by ] }

RECURSIVE Ascending(_)
Ascending(S) ==
    IF S = {} THEN << >>
    ELSE LET r == CHOOSE x \in S : \A y \in S : x.id <= y.id
         IN  << r.message_list >> \o Ascending(S \ {r})

RECURSIVE Descending(_)
Descending(S) ==
    IF S = {} THEN << >>
    ELSE LET r == CHOOSE x \in S : \A y \in S : x.id >= y.id
         IN  << r.message_list >> \o Descending(S \ {r})

\* SelectOrdered gone wrong: newest first.
SelectNewestFirst(S) == Descending(S)

\* SELECT message_list FROM messages order by id
SelectOrdered(S) == Ascending(S)

\* for row in rows: messages.extend(validate_json(row[0]))
RECURSIVE ExtendAll(_)
ExtendAll(rs) ==
    IF rs = << >> THEN << >>
    ELSE validate_json(rs[1]) \o ExtendAll(Tail(rs))

\* ------------------------------------------------------------ the chat turns

PyNone == [ null |-> TRUE, fields |-> {} ]

Dict(fs) == [ null |-> FALSE, fields |-> fs ]

\* Python truthiness of an Optional[dict]
Truthy(d) == ~d.null /\ d.fields # {}

ChatMessage(r, c, t, d) ==
    [ role |-> r, content |-> c, message_type |-> t, structured_data |-> d ]

UserEcho(p) == ChatMessage("user", p, "text", PyNone)

\* ResponseMessage gone wrong: every reply is marked structured.
ResponseAlwaysStructured(content, structured_data) ==
    ChatMessage("model", content, "structured", structured_data)

ResponseMessage(content, structured_data) ==
    ChatMessage("model", content,
                IF Truthy(structured_data) THEN "structured" ELSE "text",
                structured_data)

SorryPrefix == "Sorry, I encountered an error: "

\* ErrorMessage gone wrong: the error reply is marked structured.
ErrorMessageStructured(e) ==
    ChatMessage("model", << SorryPrefix, e >>, "structured", PyNone)

ErrorMessage(e) ==
    ChatMessage("model", << SorryPrefix, e >>, "text", PyNone)

\* Whether to_chat_message raises UnexpectedModelBehavior on m
Raises(m) ==
    ~ \/ m.kind = "request" /\ m.part_kind = "user-prompt"
      \/ m.kind = "response" /\ m.part_kind = "text"

to_chat_message(m) ==
    IF m.kind = "request"
    THEN ChatMessage("user", m.content, "text", PyNone)
    ELSE ChatMessage("model", m.content, "text", PyNone)

\* ---------------------------------------------------------------- the agents

StructuredIntents == { "tasks", "recipe", "weather", "review" }

\* The fields model_dump() returns for each result_type
model_dump(intent) ==
    CASE intent = "tasks"   -> Dict({ "tasks", "total_tasks", "summary" })
      [] intent = "recipe"  -> Dict({ "name", "description", "prep_time", "cook_time",
                                      "servings", "difficulty", "ingredients",
                                      "instructions" })
      [] intent = "weather" -> Dict({ "location", "current_condition", "temperature",
                                      "humidity", "wind_speed", "forecast_summary",
                                      "recommendations" })
      [] intent = "review"  -> Dict({ "product_name", "rating", "pros", "cons",
                                      "summary", "recommendation" })

\* The prompt handed to the agent
AgentPrompt(intent, p) ==
    CASE intent = "tasks"   -> << "Create a task list based on this request: " >> \o p
      [] intent = "recipe"  -> << "Provide a recipe based on this request: " >> \o p
      [] intent = "weather" -> << "Provide a weather forecast based on this request: " >>
                               \o p \o << ". Note: This is a demo" >>
      [] intent = "review"  -> << "Provide a product review based on this request: " >> \o p
      [] OTHER              -> p

\* The reply's content line, from the fields of result.data
Content(intent) ==
    CASE intent = "tasks"   -> << "I've created a structured task list for you with ",
                                  "3", " tasks." >>
      [] intent = "recipe"  -> << "Here's a ", "easy", " recipe for ", "soup",
                                  " (serves ", "2", ")." >>
      [] intent = "weather" -> << "Here's the weather forecast for ", "Paris", "." >>
      [] intent = "review"  -> << "Here's a structured review for ", "blender",
                                  " (", "4", "/5 stars)." >>
      [] OTHER              -> << "hello" >>

\* result.new_messages(): an agent with a result_type answers through its result tool,
\* the plain agent answers with text
NewMessages(intent, p) ==
    IF intent \in StructuredIntents
    THEN << Msg("request", "user-prompt", AgentPrompt(intent, p)),
            Msg("response", "tool-call", << "final_result" >>),
            Msg("request", "tool-return", << "Final result processed." >>) >>
    ELSE << Msg("request", "user-prompt", p),
            Msg("response", "text", Content(intent)) >>

\* ------------------------------------------------------------- the requests

\* The prompts posted: one per intent, in mixed case.
Prompts ==
    { << "P","l","a","n" >>,
      << "c","o","o","k" >>,
      << "R","A","I","N" >>,
      << "r","a","t","i","n","g" >>,
      << "h","i" >> }

\* What agent.run raises when the provider fails
GenErrors == { "provider error" }

\* What sqlite3 raises
DbErrors == { "OperationalError" }

\* The store as earlier runs of the application can have left it
InitTables ==
    { {},
      { [ id |-> 1,
          message_list |-> new_messages_json(NewMessages("general", << "h","i" >>)),
          by |-> 0 ] } }

\* A job in the executor's queue; msgs records the messages arg was serialized from
Job(t, o, a, ms) == [ task |-> t, rid |-> rid[t], op |-> o, arg |-> a, msgs |-> ms ]

Free == { "idle", "done", "failed", "cancelled" }

\* Where a POST's generator can be when the client goes away
InFlight ==
    { "echoed", "select_wait", "select_done", "fetch_wait", "fetch_done",
      "gen_wait", "replied", "add_wait", "add_done" }

\* The handler of task j.task still awaits job j
Awaited(j, w) == rid[j.task] = j.rid /\ pc[j.task] = w

Put(f, t, v, cond) == IF cond THEN [ f EXCEPT ![t] = v ] ELSE f

\* Tasks caught between their SELECT and their fetchall while job j runs
Caught(j) ==
    [ u \in Tasks |->
        IF u # j.task /\ pc[u] \in { "select_done", "fetch_wait" }
        THEN TRUE ELSE midJobs[u] ]

\* CancelJobs gone wrong: the queued job stays in the executor's queue.
KeepJobs(q, s) == q

\* Cancelling the awaiting task cancels its future; a job not yet started is dropped
CancelJobs(q, s) == SelectSeq(q, LAMBDA j : j.task # s)

\* The handler of task s has returned or was torn down: its locals are gone.
Locals(f, s, empty) == [ f EXCEPT ![s] = empty ]

\* No request has been accepted yet.
InitTasks ==
    /\ queue = << >>
    /\ started = 0
    /\ pc = [ s \in Tasks |-> "idle" ]
    /\ kind = [ s \in Tasks |-> "none" ]
    /\ rid = [ s \in Tasks |-> 0 ]
    /\ prompt = [ s \in Tasks |-> << >> ]
    /\ emitted = [ s \in Tasks |-> << >> ]
    /\ err = [ s \in Tasks |-> "none" ]
    /\ cursor = [ s \in Tasks |-> {} ]
    /\ rows = [ s \in Tasks |-> << >> ]
    /\ messages = [ s \in Tasks |-> << >> ]
    /\ result = [ s \in Tasks |-> << >> ]
    /\ outcome = [ s \in Tasks |-> "none" ]
    /\ midJobs = [ s \in Tasks |-> FALSE ]
    /\ selLen = [ s \in Tasks |-> 0 ]
    /\ sawAppend = [ s \in Tasks |-> FALSE ]
    /\ sawTurns = [ s \in Tasks |-> 0 ]
    /\ addCalls = [ s \in Tasks |-> 0 ]
    /\ completed = {}
    /\ iresult = "none"

Init ==
    /\ InitTasks
    /\ table \in InitTables
    /\ log = [ n \in 1..Cardinality(table) |-> NewMessages("general", << "h","i" >>) ]
    /\ ip = << >>

\* A request is accepted by the lowest free task: the task's locals start afresh.
Accept(s, k, p) ==
    /\ pc[s] \in Free
    /\ \A u \in Tasks : pc[u] \in Free => s <= u
    /\ started < MaxRequests
    /\ started' = started + 1
    /\ rid' = [ rid EXCEPT ![s] = started + 1 ]
    /\ kind' = [ kind EXCEPT ![s] = k ]
    /\ midJobs' = [ midJobs EXCEPT ![s] = FALSE ]
    /\ prompt' = [ prompt EXCEPT ![s] = p ]
    /\ outcome' = [ outcome EXCEPT ![s] = "none" ]
    /\ sawAppend' = [ sawAppend EXCEPT ![s] = FALSE ]
    /\ sawTurns' = [ sawTurns EXCEPT ![s] = 0 ]
    /\ addCalls' = [ addCalls EXCEPT ![s] = 0 ]
    /\ UNCHANGED << table, log, err, cursor, rows, messages, result, selLen,
                    completed, ip, iresult >>

\* POST /chat/: the generator runs to its first yield, the user echo.
PostChat(s) ==
    \E p \in Prompts :
        /\ Accept(s, "post", p)
        /\ emitted' = [ emitted EXCEPT ![s] = << UserEcho(p) >> ]
        /\ pc' = [ pc EXCEPT ![s] = "echoed" ]
        /\ UNCHANGED queue

\* GET /chat/: the handler awaits database.get_messages().
GetChat(s) ==
    /\ Accept(s, "get", << >>)
    /\ emitted' = [ emitted EXCEPT ![s] = << >> ]
    /\ pc' = [ pc EXCEPT ![s] = "select_wait" ]
    /\ queue' = Append(queue, [ task |-> s, rid |-> started + 1, op |-> "select",
                                arg |-> << >>, msgs |-> << >> ])

\* The generator is resumed after the echo: detect_intent, then get_messages submits
\* its SELECT.
CallGetMessages(s) ==
    /\ pc[s] = "echoed"
    /\ pc' = [ pc EXCEPT ![s] = "select_wait" ]
    /\ queue' = Append(queue, Job(s, "select", << >>, << >>))
    /\ UNCHANGED << table, log, started, kind, rid, prompt, emitted, err, cursor, rows,
                    messages, result, outcome, midJobs, selLen, sawAppend, sawTurns,
                    addCalls, completed, ip, iresult >>

\* The worker runs _execute(SELECT ...).
RunSelect ==
    /\ queue # << >>
    /\ Head(queue).op = "select"
    /\ LET j == Head(queue)
           w == Awaited(j, "select_wait")
       IN  \E e \in { "none" } \cup DbErrors :
             /\ queue' = Tail(queue)
             /\ err' = Put(err, j.task, e, w)
             /\ cursor' = Put(cursor, j.task, IF e = "none" THEN table ELSE {}, w)
             /\ selLen' = Put(selLen, j.task, IF e = "none" THEN Len(log) ELSE 0, w)
             /\ pc' = Put(pc, j.task, "select_done", w)
             /\ midJobs' = Caught(j)
    /\ UNCHANGED << table, log, started, kind, rid, prompt, emitted, rows, messages,
                    result, outcome, sawAppend, sawTurns, addCalls, completed, ip,
                    iresult >>

\* The SELECT raised: get_messages raises, outside the generator's try block.
SelectRaised(s) ==
    /\ pc[s] = "select_done"
    /\ err[s] # "none"
    /\ pc' = [ pc EXCEPT ![s] = "failed" ]
    /\ outcome' = [ outcome EXCEPT ![s] = "store_failed" ]
    /\ err' = Locals(err, s, "none")
    /\ midJobs' = Locals(midJobs, s, FALSE)
    /\ UNCHANGED << table, queue, log, started, kind, rid, prompt, emitted, cursor,
                    rows, messages, result, selLen, sawAppend, sawTurns, addCalls,
                    completed, ip, iresult >>

\* get_messages submits c.fetchall as a second job.
CallFetchall(s) ==
    /\ pc[s] = "select_done"
    /\ err[s] = "none"
    /\ pc' = [ pc EXCEPT ![s] = "fetch_wait" ]
    /\ queue' = Append(queue, Job(s, "fetchall", << >>, << >>))
    /\ UNCHANGED << table, log, started, kind, rid, prompt, emitted, err, cursor, rows,
                    messages, result, outcome, midJobs, selLen, sawAppend, sawTurns,
                    addCalls, completed, ip, iresult >>

\* The worker runs c.fetchall. Rows inserted on the connection since the SELECT
\* started may or may not be seen by it.
RunFetchall ==
    /\ queue # << >>
    /\ Head(queue).op = "fetchall"
    /\ LET j == Head(queue)
           w == Awaited(j, "fetch_wait")
       IN  \E e \in { "none" } \cup DbErrors :
           \E extra \in SUBSET (table \ cursor[j.task]) :
             /\ e # "none" => extra = {}
             /\ queue' = Tail(queue)
             /\ err' = Put(err, j.task, e, w)
             /\ rows' = Put(rows, j.task,
                            IF e = "none" THEN SelectOrdered(cursor[j.task] \cup extra)
                            ELSE << >>, w)
             /\ cursor' = Put(cursor, j.task, {}, w)
             /\ pc' = Put(pc, j.task, "fetch_done", w)
             /\ midJobs' = Caught(j)
    /\ UNCHANGED << table, log, started, kind, rid, prompt, emitted, messages, result,
                    outcome, selLen, sawAppend, sawTurns, addCalls, completed, ip,
                    iresult >>

\* get_messages raises: fetchall failed, or validate_json rejects a row.
FetchRaised(s) ==
    /\ pc[s] = "fetch_done"
    /\ \/ err[s] # "none"
       \/ \E n \in 1..Len(rows[s]) : ~ValidJson(rows[s][n])
    /\ pc' = [ pc EXCEPT ![s] = "failed" ]
    /\ outcome' = [ outcome EXCEPT ![s] = "store_failed" ]
    /\ err' = Locals(err, s, "none")
    /\ rows' = Locals(rows, s, << >>)
    /\ midJobs' = Locals(midJobs, s, FALSE)
    /\ selLen' = Locals(selLen, s, 0)
    /\ UNCHANGED << table, queue, log, started, kind, rid, prompt, emitted, cursor,
                    messages, result, sawAppend, sawTurns, addCalls, completed, ip,
                    iresult >>

\* fetchall returned rows and validate_json accepts each of them
GotRows(s) ==
    /\ pc[s] = "fetch_done"
    /\ err[s] = "none"
    /\ \A n \in 1..Len(rows[s]) : ValidJson(rows[s][n])

\* POST: get_messages returns the history and the agent for the intent is awaited.
HistoryLoaded(s) ==
    /\ kind[s] = "post"
    /\ GotRows(s)
    /\ messages' = [ messages EXCEPT ![s] = ExtendAll(rows[s]) ]
    /\ rows' = Locals(rows, s, << >>)
    /\ pc' = [ pc EXCEPT ![s] = "gen_wait" ]
    /\ UNCHANGED << table, queue, log, started, kind, rid, prompt, emitted, err, cursor,
                    result, outcome, midJobs, selLen, sawAppend, sawTurns, addCalls,
                    completed, ip, iresult >>

\* GET: every message converts and the response holds one line per message.
GetChatResponds(s) ==
    /\ kind[s] = "get"
    /\ GotRows(s)
    /\ LET msgs == ExtendAll(rows[s])
       IN  /\ \A n \in 1..Len(msgs) : ~Raises(msgs[n])
           /\ emitted' = [ emitted EXCEPT ![s] =
                             [ n \in 1..Len(msgs) |-> to_chat_message(msgs[n]) ] ]
    /\ rows' = Locals(rows, s, << >>)
    /\ selLen' = Locals(selLen, s, 0)
    /\ pc' = [ pc EXCEPT ![s] = "done" ]
    /\ outcome' = [ outcome EXCEPT ![s] = "ok" ]
    /\ UNCHANGED << midJobs, table, queue, log, started, kind, rid, prompt, err, cursor,
                    messages, result, sawAppend, sawTurns, addCalls, completed, ip,
                    iresult >>

\* GET: to_chat_message raises UnexpectedModelBehavior and the request fails.
GetChatRaises(s) ==
    /\ kind[s] = "get"
    /\ GotRows(s)
    /\ LET msgs == ExtendAll(rows[s])
       IN  \E n \in 1..Len(msgs) : Raises(msgs[n])
    /\ rows' = Locals(rows, s, << >>)
    /\ selLen' = Locals(selLen, s, 0)
    /\ pc' = [ pc EXCEPT ![s] = "failed" ]
    /\ outcome' = [ outcome EXCEPT ![s] = "render_failed" ]
    /\ UNCHANGED << midJobs, table, queue, log, started, kind, rid, prompt, emitted, err, cursor,
                    messages, result, sawAppend, sawTurns, addCalls, completed, ip,
                    iresult >>

\* structured_data as the branch for the intent sets it
StructuredData(intent) ==
    IF intent \in StructuredIntents THEN model_dump(intent) ELSE PyNone

\* The agent returns: the reply is built and yielded.
GenSucceeds(s) ==
    /\ pc[s] = "gen_wait"
    /\ LET intent == detect_intent(prompt[s])
       IN  /\ result' = [ result EXCEPT ![s] = NewMessages(intent, prompt[s]) ]
           /\ emitted' = [ emitted EXCEPT ![s] =
                             Append(@, ResponseMessage(Content(intent),
                                                       StructuredData(intent))) ]
    /\ messages' = Locals(messages, s, << >>)
    /\ midJobs' = Locals(midJobs, s, FALSE)
    /\ selLen' = Locals(selLen, s, 0)
    /\ pc' = [ pc EXCEPT ![s] = "replied" ]
    /\ UNCHANGED << table, queue, log, started, kind, rid, prompt, err, cursor, rows,
                    outcome, sawAppend, sawTurns, addCalls, completed, ip, iresult >>

\* The agent raises: the except branch yields the error reply and the generator ends.
GenFails(s) ==
    /\ pc[s] = "gen_wait"
    /\ \E e \in GenErrors :
         emitted' = [ emitted EXCEPT ![s] = Append(@, ErrorMessage(e)) ]
    /\ messages' = Locals(messages, s, << >>)
    /\ midJobs' = Locals(midJobs, s, FALSE)
    /\ selLen' = Locals(selLen, s, 0)
    /\ pc' = [ pc EXCEPT ![s] = "done" ]
    /\ outcome' = [ outcome EXCEPT ![s] = "gen_failed" ]
    /\ UNCHANGED << table, queue, log, started, kind, rid, prompt, err, cursor, rows,
                    result, sawAppend, sawTurns, addCalls, completed, ip, iresult >>

\* The generator is resumed after the reply: add_messages submits its INSERT.
CallAddMessages(s) ==
    /\ pc[s] = "replied"
    /\ pc' = [ pc EXCEPT ![s] = "add_wait" ]
    /\ queue' = Append(queue, Job(s, "insert", new_messages_json(result[s]), result[s]))
    /\ result' = Locals(result, s, << >>)
    /\ addCalls' = [ addCalls EXCEPT ![s] = @ + 1 ]
    /\ UNCHANGED << table, log, started, kind, rid, prompt, emitted, err, cursor, rows,
                    messages, outcome, midJobs, selLen, sawAppend, sawTurns, completed,
                    ip, iresult >>

\* The worker runs _execute(INSERT ..., commit=True): the row is inserted and
\* committed, or sqlite3 raises and the table is as before.
RunInsert ==
    /\ queue # << >>
    /\ Head(queue).op = "insert"
    /\ LET j == Head(queue)
           w == Awaited(j, "add_wait")
       IN  \E e \in { "none" } \cup DbErrors :
             /\ queue' = Tail(queue)
             /\ table' = IF e = "none" THEN Insert(table, j.arg, j.rid) ELSE table
             /\ log' = IF e = "none" THEN Append(log, j.msgs) ELSE log
             /\ err' = Put(err, j.task, e, w)
             /\ pc' = Put(pc, j.task, "add_done", w)
             /\ midJobs' = Caught(j)
    /\ UNCHANGED << started, kind, rid, prompt, emitted, cursor, rows, messages, result,
                    outcome, selLen, sawAppend, sawTurns, addCalls, completed, ip,
                    iresult >>

\* add_messages returns and the generator ends.
AddReturns(s) ==
    /\ pc[s] = "add_done"
    /\ err[s] = "none"
    /\ pc' = [ pc EXCEPT ![s] = "done" ]
    /\ outcome' = [ outcome EXCEPT ![s] = "ok" ]
    /\ completed' = completed \cup { rid[s] }
    /\ UNCHANGED << table, queue, log, started, kind, rid, prompt, emitted, err, cursor,
                    rows, messages, result, midJobs, selLen, sawAppend, sawTurns,
                    addCalls, ip, iresult >>

\* add_messages raises inside the try block: the except branch yields the error reply.
AddRaises(s) ==
    /\ pc[s] = "add_done"
    /\ err[s] # "none"
    /\ emitted' = [ emitted EXCEPT ![s] = Append(@, ErrorMessage(err[s])) ]
    /\ err' = Locals(err, s, "none")
    /\ pc' = [ pc EXCEPT ![s] = "done" ]
    /\ outcome' = [ outcome EXCEPT ![s] = "add_failed" ]
    /\ UNCHANGED << table, queue, log, started, kind, rid, prompt, cursor, rows,
                    messages, result, midJobs, selLen, sawAppend, sawTurns, addCalls,
                    completed, ip, iresult >>

\* The client of a POST disconnects: the streaming task is cancelled. A generator
\* suspended at a yield is not resumed; one awaiting gets CancelledError, which
\* `except Exception` does not catch.
Disconnect(s) ==
    /\ kind[s] = "post"
    /\ pc[s] \in InFlight
    /\ pc' = [ pc EXCEPT ![s] = "cancelled" ]
    /\ outcome' = [ outcome EXCEPT ![s] = "abandoned" ]
    /\ sawAppend' = [ sawAppend EXCEPT ![s] = (pc[s] = "add_done") ]
    /\ sawTurns' = [ sawTurns EXCEPT ![s] = Len(emitted[s]) ]
    /\ queue' = CancelJobs(queue, s)
    /\ err' = Locals(err, s, "none")
    /\ cursor' = Locals(cursor, s, {})
    /\ rows' = Locals(rows, s, << >>)
    /\ messages' = Locals(messages, s, << >>)
    /\ result' = Locals(result, s, << >>)
    /\ midJobs' = Locals(midJobs, s, FALSE)
    /\ selLen' = Locals(selLen, s, 0)
    /\ UNCHANGED << table, log, started, kind, rid, prompt, emitted, addCalls,
                    completed, ip, iresult >>

Next ==
    \/ \E s \in Tasks : PostChat(s)
    \/ \E s \in Tasks : GetChat(s)
    \/ \E s \in Tasks : CallGetMessages(s)
    \/ RunSelect
    \/ \E s \in Tasks : SelectRaised(s)
    \/ \E s \in Tasks : CallFetchall(s)
    \/ RunFetchall
    \/ \E s \in Tasks : FetchRaised(s)
    \/ \E s \in Tasks : HistoryLoaded(s)
    \/ \E s \in Tasks : GetChatResponds(s)
    \/ \E s \in Tasks : GetChatRaises(s)
    \/ \E s \in Tasks : GenSucceeds(s)
    \/ \E s \in Tasks : GenFails(s)
    \/ \E s \in Tasks : CallAddMessages(s)
    \/ RunInsert
    \/ \E s \in Tasks : AddReturns(s)
    \/ \E s \in Tasks : AddRaises(s)
    \/ \E s \in Tasks : Disconnect(s)

Spec == Init /\ [][Next]_vars

\* ------------------------------------------------ detect_intent on its own

\* str.upper() on one character
UpperChar(c) ==
    IF \E u \in DOMAIN LowerOf : LowerOf[u] = c
    THEN CHOOSE u \in DOMAIN LowerOf : LowerOf[u] = c
    ELSE c

\* str.upper()
Upper(s) == [ i \in 1..Len(s) |-> UpperChar(s[i]) ]

Whitespace == { " ", "\t" }

\* What the prompts under test are put together from: every keyword, as it is and
\* in capitals, whitespace, a letter of no keyword, and the two halves of a keyword.
Pieces ==
    TaskWords \cup RecipeWords \cup WeatherWords \cup ReviewWords
    \cup { Upper(w) : w \in TaskWords \cup RecipeWords \cup WeatherWords \cup ReviewWords }
    \cup { << " " >>, << "\t" >>, << "x" >>, << "t","a" >>, << "s","k" >> }

RECURSIVE Concats(_)
Concats(n) ==
    IF n = 0 THEN { << >> }
    ELSE Concats(n - 1) \cup { a \o b : a \in Concats(n - 1), b \in Pieces }

PromptInputs == Concats(MaxPieces)

InitIntent ==
    /\ InitTasks
    /\ table = {}
    /\ log = << >>
    /\ ip \in PromptInputs

Classify ==
    /\ iresult = "none"
    /\ iresult' = detect_intent(ip)
    /\ UNCHANGED << table, queue, log, started, pc, kind, rid, prompt, emitted, err,
                    cursor, rows, messages, result, outcome, midJobs, selLen, sawAppend,
                    sawTurns, addCalls, completed, ip >>

NextIntent == Classify

SpecIntent == InitIntent /\ [][NextIntent]_vars

\* -------------------------------------------------------------- the claims

Posts == { s \in Tasks : kind[s] = "post" }

Gets == { s \in Tasks : kind[s] = "get" }

RowsOf(s) == { r \in table : r.by = rid[s] }

IsSorry(turn) ==
    /\ turn.role = "model"
    /\ Len(turn.content) = 2
    /\ turn.content[1] = "Sorry, I encountered an error: "

\* C1: the stream of every POST the client does not abandon holds exactly two
\* turns when it has run to its end, the user echo and then one model turn,
\* whatever the generator and the store do; no third turn is ever emitted and no
\* model turn comes before the echo.
C1_ExactlyTwoTurns ==
    \A s \in Posts :
        /\ Len(emitted[s]) <= 2
        /\ Len(emitted[s]) >= 1 => emitted[s][1].role = "user"
        /\ Len(emitted[s]) >= 2 => emitted[s][2].role = "model"
        /\ pc[s] = "done" => Len(emitted[s]) = 2

\* C2: when the generator call fails, the request emits the model turn
\* "Sorry, I encountered an error: {message}" with message_type text and no
\* structured data, and appends nothing to the store.
C2_GeneratorFailure ==
    \A s \in Posts :
        outcome[s] = "gen_failed" =>
            /\ Len(emitted[s]) = 2
            /\ emitted[s][1] = ChatMessage("user", prompt[s], "text", PyNone)
            /\ IsSorry(emitted[s][2])
            /\ emitted[s][2].content[2] \in GenErrors
            /\ emitted[s][2].message_type = "text"
            /\ emitted[s][2].structured_data.null
            /\ addCalls[s] = 0
            /\ RowsOf(s) = {}
            /\ \A n \in 1..Len(queue) : queue[n].rid # rid[s]

C2_Witness ==
    \E s \in Posts :
        /\ pc[s] = "done"
        /\ outcome[s] = "gen_failed"
        /\ table # {}

\* What a successful exchange of task s persists: its prompt's turn and the model's turns
Exchange(s) == NewMessages(detect_intent(prompt[s]), prompt[s])

\* A record holding a whole exchange: a user prompt's request and a model response
WholeExchange(b) ==
    /\ ValidJson(b)
    /\ Len(b) >= 8
    /\ b[2] = "request" /\ b[3] = "user-prompt"
    /\ \E n \in 1..((Len(b) - 2) \div 3) : b[3 * n - 1] = "response"

\* C3: a POST whose generator call succeeds and whose stream runs to the end makes
\* exactly one append, of a single record holding the whole exchange, after the
\* model turn was emitted; the store never holds a record with part of an exchange
\* and no request appends more than one record.
C3_SingleAppend ==
    /\ \A s \in Posts :
          /\ pc[s] = "done" /\ outcome[s] \in { "ok", "add_failed" } => addCalls[s] = 1
          /\ outcome[s] = "ok" =>
                /\ Cardinality(RowsOf(s)) = 1
                /\ \A r \in RowsOf(s) : r.message_list = new_messages_json(Exchange(s))
          /\ addCalls[s] <= 1
          /\ Cardinality(RowsOf(s)) <= addCalls[s]
          /\ addCalls[s] >= 1 =>
                /\ Len(emitted[s]) >= 2
                /\ emitted[s][2].role = "model"
                /\ ~IsSorry(emitted[s][2])
    /\ \A r \in table : WholeExchange(r.message_list)
    /\ \A r1, r2 \in table : r1.by = r2.by => r1 = r2

C3_Witness ==
    \E s \in Posts :
        /\ pc[s] = "done"
        /\ outcome[s] = "ok"
        /\ detect_intent(prompt[s]) = "tasks"
        /\ Cardinality(table) = 2

\* C4: a store failure during a POST (get_messages or add_messages failing) fails
\* the request outright: no turn has been emitted to the client when the failure
\* surfaces, and the failure is not turned into an in-stream "Sorry, I encountered
\* an error" model turn.
C4_StoreFailureIsHard ==
    \A s \in Posts :
        \/ outcome[s] \in { "store_failed", "add_failed" }
        \/ pc[s] \in { "select_done", "fetch_done", "add_done" } /\ err[s] # "none"
        => /\ emitted[s] = << >>
           /\ \A n \in 1..Len(emitted[s]) :
                 ~(IsSorry(emitted[s][n]) /\ emitted[s][n].content[2] \in DbErrors)

\* C5: after successfully completed exchanges of any intent, GET /chat/ succeeds and
\* returns one line per persisted message, in insertion order; to_chat_message never
\* raises on a message a successful exchange persisted; an empty store gives no lines.
C5_GetChatSucceeds ==
    \A s \in Gets :
        /\ ~midJobs[s] /\ (\A r \in table : r.by = 0 \/ r.by \in completed) =>
              outcome[s] # "render_failed"
        /\ outcome[s] = "ok" /\ log = << >> => emitted[s] = << >>

RECURSIVE Flatten(_)
Flatten(ls) == IF ls = << >> THEN << >> ELSE ls[1] \o Flatten(Tail(ls))

\* What get_messages has in hand to return
Returned(s) == IF pc[s] = "gen_wait" THEN messages[s] ELSE ExtendAll(rows[s])

\* get_messages of task s has its result and no other job ran while it read
CleanRead(s) ==
    /\ pc[s] = "gen_wait" \/ GotRows(s)
    /\ ~midJobs[s]

\* C6: after add_messages calls e1..en on a store holding h, get_messages returns
\* h's turns, then e1's, ... then en's, each exchange's turns in their order, none
\* lost, duplicated or reordered; an append never modifies or removes a record.
C6_RoundTrip ==
    /\ [] \A s \in Tasks :
            CleanRead(s) => Returned(s) = Flatten(SubSeq(log, 1, selLen[s]))
    /\ [] (Len(log) = Cardinality(table))
    /\ [][ \A r \in table : r \in table' ]_vars

C6_Witness ==
    \E s \in Tasks :
        /\ CleanRead(s)
        /\ selLen[s] = 2
        /\ Len(Returned(s)) >= 4
        /\ Returned(s)[1].content # Returned(s)[3].content

\* The keyword groups in their priority order
Groups == << TaskWords, RecipeWords, WeatherWords, ReviewWords >>

GroupNames == << "tasks", "recipe", "weather", "review" >>

\* Word w stands in text t at position i
At(t, w, i) ==
    /\ i + Len(w) - 1 <= Len(t)
    /\ \A k \in 1..Len(w) : t[i + k - 1] = w[k]

\* The groups with a keyword somewhere in the lowercased prompt
Matching(p) ==
    LET low == Lower(p)
    IN  { g \in 1..4 : \E w \in Groups[g] : \E i \in 1..Len(p) : At(low, w, i) }

\* C7: detect_intent returns the first group, in the order tasks, recipe, weather,
\* review, with a keyword occurring anywhere in the lowercased prompt, and general
\* when none has; empty and whitespace-only prompts give general, and prompts that
\* differ only in letter case give the same result.
C7_DetectIntent ==
    iresult # "none" =>
        /\ LET found == Matching(ip)
           IN  iresult = IF found = {} THEN "general"
                         ELSE GroupNames[CHOOSE g \in found : \A h \in found : g <= h]
        /\ (\A i \in 1..Len(ip) : ip[i] \in Whitespace) => iresult = "general"
        /\ iresult = detect_intent(Upper(ip))
        /\ iresult = detect_intent(Lower(ip))

C7_Witness ==
    /\ iresult = "tasks"
    /\ ip # Lower(ip)
    /\ LET low == Lower(ip)
       IN  /\ \E i \in 1..Len(ip) : At(low, << "c","o","o","k" >>, i)
           /\ \E i \in 2..Len(ip) : At(low, << "t","a","s","k" >>, i)

\* The model turn of task s is the reply of a successful generator call
Replied(s) ==
    \/ pc[s] \in { "replied", "add_wait", "add_done" }
    \/ outcome[s] \in { "ok", "add_failed" }

\* C8: every turn POST emits has structured_data non-null exactly when its
\* message_type is structured; a successful reply is structured exactly when the
\* intent is tasks, recipe, weather or review, and is text with null
\* structured_data when the intent is general.
C8_StructuredIff ==
    \A s \in Posts :
        /\ \A n \in 1..Len(emitted[s]) :
              ~emitted[s][n].structured_data.null
                  <=> emitted[s][n].message_type = "structured"
        /\ \A n \in 1..Len(emitted[s]) :
              emitted[s][n].message_type \in { "text", "structured" }
        /\ Replied(s) =>
              /\ emitted[s][2].message_type = "structured"
                    <=> detect_intent(prompt[s]) \in StructuredIntents
              /\ detect_intent(prompt[s]) = "general" =>
                    /\ emitted[s][2].message_type = "text"
                    /\ emitted[s][2].structured_data.null

C8_Witness ==
    \E s, u \in Posts :
        /\ Replied(s) /\ emitted[s][2].message_type = "structured"
        /\ Replied(u) /\ emitted[u][2].message_type = "text"

\* C9: store operations of requests in flight are never interleaved: between the
\* SELECT of one get_messages and its fetchall no job of another request runs
\* against the connection.
C9_NoInterleaving ==
    \A s \in Tasks : ~midJobs[s]

\* C10: when the client disconnects before the append ran (after the echo, while
\* the generator is pending, or after the model turn), the request emits no further
\* turn and the store receives no record for it.
C10_Abandoned ==
    \A s \in Posts :
        pc[s] = "cancelled" =>
            /\ Len(emitted[s]) = sawTurns[s]
            /\ ~sawAppend[s] => RowsOf(s) = {}
            /\ \A r \in RowsOf(s) : WholeExchange(r.message_list)

C10_Witness ==
    \E s \in Posts :
        /\ pc[s] = "cancelled"
        /\ ~sawAppend[s]
        /\ addCalls[s] = 1
        /\ Len(emitted[s]) = 2
        /\ Len(log) = 2

====
